---- MODULE Spec2Model ----
(***************************************************************************)
(* A model of zenn-scrap-to-md (src/src/main.rs): the pipeline of main     *)
(* (extract_slug, cookie resolution, manual_login_cookie, fetch_scrap,     *)
(* render_markdown, fs::write) and its pure functions.                     *)
(*                                                                         *)
(* Strings are sequences of one-character strings, so that trimming,       *)
(* searching, slicing and the image rewrite are computed character by      *)
(* character as the code computes them.  An Option<T> is a sequence of     *)
(* length 0 (None) or 1 (Some).                                            *)
(***************************************************************************)
EXTENDS Integers, Sequences, FiniteSets, TLC

VARIABLES
    pc,          \* the position of main (the await point it is at)
    url,         \* args.url
    argCookie,   \* args.cookie : Option<String>
    envCookie,   \* env::var("ZENN_AUTH_COOKIE").ok() : Option<String>
    skipHeader,  \* args.skip_header
    slug,        \* main's `slug`
    cookie,      \* main's `cookie` : None until resolved
    session,     \* the WebDriver session: "none", "open" or "closed"
    jar,         \* the cookies returned by client.get_all_cookies()
    scrap,       \* main's `scrap`
    md,          \* main's `md`
    file,        \* the output file: [written, content]
    result,      \* "running", "Ok", or the AppError variant main returned
    errAt,       \* the call whose `?` returned the error ("" while none)
    request,     \* the request fetch_scrap sent: Option<[url, cookie]>
    ran,         \* the calls main has made so far, in order
    bodyParts    \* the parts a generated comment body was put together from

vars == <<pc, url, argCookie, envCookie, skipHeader, slug, cookie, session,
          jar, scrap, md, file, request, result, errAt, ran, bodyParts>>

-----------------------------------------------------------------------------
(* Bounds of the model *)

\* the number of pieces an input of extract_slug is put together from
MaxPieces == 4
\* the number of comments of a generated comment forest
MaxNodes == 4
\* the number of parts a generated comment body is put together from
MaxParts == 3

-----------------------------------------------------------------------------
(* Strings *)

None == <<>>
Some(x) == <<x>>

RECURSIVE Concat(_)
\* the concatenation of a sequence of strings
Concat(ss) == IF ss = <<>> THEN <<>> ELSE Head(ss) \o Concat(Tail(ss))

\* s[i..] contains pat at (1-based) index i
MatchesAt(s, pat, i) ==
    /\ i >= 1
    /\ i + Len(pat) - 1 <= Len(s)
    /\ \A k \in 1..Len(pat) : s[i + k - 1] = pat[k]

\* str::find: Some(the 0-based index of the first occurrence of pat), or None
Find(s, pat) ==
    LET hits == {i \in 1..Len(s) : MatchesAt(s, pat, i)}
    IN  IF hits = {} THEN None
        ELSE Some((CHOOSE i \in hits : \A j \in hits : i <= j) - 1)

RECURSIVE TrimEndMatches(_, _)
\* str::trim_end_matches(ch): every trailing ch removed
TrimEndMatches(s, ch) ==
    IF s # <<>> /\ s[Len(s)] = ch
    THEN TrimEndMatches(SubSeq(s, 1, Len(s) - 1), ch)
    ELSE s

\* &s[from..] with a 0-based byte index
SliceFrom(s, from) == SubSeq(s, from + 1, Len(s))

RECURSIVE Replace(_, _, _)
\* str::replace: every non-overlapping occurrence of pat, left to right
Replace(s, pat, to) ==
    IF s = <<>> THEN <<>>
    ELSE IF MatchesAt(s, pat, 1)
         THEN to \o Replace(SubSeq(s, Len(pat) + 1, Len(s)), pat, to)
         ELSE <<Head(s)>> \o Replace(Tail(s), pat, to)

-----------------------------------------------------------------------------
(* extract_slug *)

ScrapsMarker == <<"/", "s", "c", "r", "a", "p", "s", "/">>
\* the 8 of `pos + 8`
MarkerLen == 8

Ok(v) == [ok |-> TRUE, val |-> v, err |-> ""]
Err(e) == [ok |-> FALSE, val |-> <<>>, err |-> e]

extract_slug(input) ==
    LET trimmed == TrimEndMatches(input, "/")
        pos == Find(trimmed, ScrapsMarker)
    IN  IF pos # None THEN Ok(SliceFrom(trimmed, pos[1] + MarkerLen))
        ELSE IF trimmed # <<>> THEN Ok(trimmed)
        ELSE Err("BadSlug")

-----------------------------------------------------------------------------
(* render_comments: the image rewrite *)

ImgOpen == <<"!", "[", "]", "(">>
Digits == {"0", "1", "2", "3", "4", "5", "6", "7", "8", "9"}

IsUrlChar(c) == c \notin {" ", ")"}
IsDigit(c) == c \in Digits

RECURSIVE UrlRunEnd(_, _)
\* [^ )]+ from index i: the index of the last character of the longest run
\* of characters other than space and ")"; i - 1 when the run is empty
UrlRunEnd(s, i) ==
    IF i <= Len(s) /\ IsUrlChar(s[i]) THEN UrlRunEnd(s, i + 1) ELSE i - 1

RECURSIVE DigitRunEnd(_, _)
\* \d+ from index i: the index of the last digit of the longest run of
\* digits; i - 1 when the run is empty
DigitRunEnd(s, i) ==
    IF i <= Len(s) /\ IsDigit(s[i]) THEN DigitRunEnd(s, i + 1) ELSE i - 1

\* img_re matched at index i of s: Some([last, url, width]) with width an
\* Option, or None.  img_re is  !\[\]\((?P<url>[^ )]+)(?: =(?P<width>\d+)x)?\)
ImgMatchAt(s, i) ==
    IF ~MatchesAt(s, ImgOpen, i) THEN None
    ELSE
      LET u1 == i + Len(ImgOpen)
          u2 == UrlRunEnd(s, u1)
          w1 == u2 + 3
          w2 == DigitRunEnd(s, w1)
      IN  IF u2 < u1 THEN None
          ELSE IF MatchesAt(s, <<")">>, u2 + 1)
          THEN Some([last |-> u2 + 1, url |-> SubSeq(s, u1, u2), width |-> None])
          ELSE IF /\ MatchesAt(s, <<" ", "=">>, u2 + 1)
                  /\ w2 >= w1
                  /\ MatchesAt(s, <<"x", ")">>, w2 + 1)
          THEN Some([last |-> w2 + 2, url |-> SubSeq(s, u1, u2),
                     width |-> Some(SubSeq(s, w1, w2))])
          ELSE None

\* the closure given to replace_all
ImgTag(caps) ==
    IF caps.width # None
    THEN <<"<", "i", "m", "g", " ", "s", "r", "c", "=", "\"">> \o caps.url
         \o <<"\"", " ", "w", "i", "d", "t", "h", "=", "\"">> \o caps.width[1]
         \o <<"\"", ">">>
    ELSE <<"<", "i", "m", "g", " ", "s", "r", "c", "=", "\"">> \o caps.url
         \o <<"\"", ">">>

RECURSIVE ImgReplaceFrom(_, _)
ImgReplaceFrom(s, i) ==
    IF i > Len(s) THEN <<>>
    ELSE LET m == ImgMatchAt(s, i)
         IN  IF m # None
             THEN ImgTag(m[1]) \o ImgReplaceFrom(s, m[1].last + 1)
             ELSE <<s[i]>> \o ImgReplaceFrom(s, i + 1)

\* replace (not replace_all): only the first match is rewritten
ImgReplaceAll_FirstOnly(s) ==
    LET hits == {i \in 1..Len(s) : ImgMatchAt(s, i) # None}
    IN  IF hits = {} THEN s
        ELSE LET i == CHOOSE h \in hits : \A j \in hits : h <= j
                 m == ImgMatchAt(s, i)
             IN  SubSeq(s, 1, i - 1) \o ImgTag(m[1])
                 \o SubSeq(s, m[1].last + 1, Len(s))

\* img_re.replace_all(body, closure): every leftmost non-overlapping match
ImgReplaceAll(s) == ImgReplaceFrom(s, 1)

-----------------------------------------------------------------------------
(* render_comments, render_markdown *)

NL2 == <<"\n", "\n">>
Rule == <<"-", "-", "-", "\n", "\n">>

\* format!("**{} ({})**\n\n", comment.author, comment.created_at)
HeaderLine(comment) ==
    <<"*", "*">> \o comment.author \o <<" ", "(">> \o comment.created_at
    \o <<")", "*", "*">> \o NL2

RECURSIVE render_comments(_, _, _), RenderLoop(_, _, _, _)
RECURSIVE RenderLoop_ChildrenSkipHeader(_, _, _, _)
RECURSIVE RenderLoop_ChildrenFirst(_, _, _, _)

\* the recursive call made with skip_header = true: replies lose their header
RenderLoop_ChildrenSkipHeader(comments, i, out, skip_header) ==
    IF i >= Len(comments) THEN out
    ELSE
      LET comment == comments[i + 1]
          o1 == IF ~skip_header THEN out \o HeaderLine(comment) ELSE out
          o2 == o1 \o ImgReplaceAll(comment.body_markdown) \o NL2
          o3 == IF comment.children # <<>>
                THEN render_comments(comment.children, o2, TRUE)
                ELSE o2
          o4 == IF ~skip_header /\ i < Len(comments) - 1 THEN o3 \o Rule ELSE o3
      IN  RenderLoop_ChildrenSkipHeader(comments, i + 1, o4, skip_header)

\* the recursive call made before the comment itself is written
RenderLoop_ChildrenFirst(comments, i, out, skip_header) ==
    IF i >= Len(comments) THEN out
    ELSE
      LET comment == comments[i + 1]
          o1 == IF comment.children # <<>>
                THEN render_comments(comment.children, out, skip_header)
                ELSE out
          o2 == IF ~skip_header THEN o1 \o HeaderLine(comment) ELSE o1
          o3 == o2 \o ImgReplaceAll(comment.body_markdown) \o NL2
          o4 == IF ~skip_header /\ i < Len(comments) - 1 THEN o3 \o Rule ELSE o3
      IN  RenderLoop_ChildrenFirst(comments, i + 1, o4, skip_header)

\* the body of the for loop, from the 0-based index i on; returns `out`
RenderLoop(comments, i, out, skip_header) ==
    IF i >= Len(comments) THEN out
    ELSE
      LET comment == comments[i + 1]
          o1 == IF ~skip_header THEN out \o HeaderLine(comment) ELSE out
          o2 == o1 \o ImgReplaceAll(comment.body_markdown) \o NL2
          o3 == IF comment.children # <<>>
                THEN render_comments(comment.children, o2, skip_header)
                ELSE o2
          o4 == IF ~skip_header /\ i < Len(comments) - 1 THEN o3 \o Rule ELSE o3
      IN  RenderLoop(comments, i + 1, o4, skip_header)

render_comments(comments, out, skip_header) ==
    RenderLoop(comments, 0, out, skip_header)

ZennPrefix == <<"h", "t", "t", "p", "s", ":", "/", "/", "z", "e", "n", "n",
                ".", "d", "e", "v", "/">>

\* format!("# {}\n\n", scrap.title)
TitleLine(s) == <<"#", " ">> \o s.title \o NL2
\* format!("Original: [{}]({})\n\n", url.replace("https://zenn.dev/", ""), url)
BacklinkLine(u) ==
    <<"O", "r", "i", "g", "i", "n", "a", "l", ":", " ", "[">>
    \o Replace(u, ZennPrefix, <<>>) \o <<"]", "(">> \o u \o <<")">> \o NL2

render_markdown(s, u, skip_header) ==
    render_comments(s.comments, TitleLine(s) \o BacklinkLine(u), skip_header)

-----------------------------------------------------------------------------
(* main: cookie resolution *)

\* the chain in the wrong order: the environment before --cookie
ResolveCookie_EnvFirst(arg, envc) ==
    IF envc # None THEN [login |-> FALSE, cookie |-> envc]
    ELSE IF arg # None THEN [login |-> FALSE, cookie |-> arg]
    ELSE [login |-> TRUE, cookie |-> None]

\* `if let Some(c) = args.cookie ... else if let Ok(envc) = env::var(..) ...
\* else manual_login_cookie()`: the cookie, or None when the manual login
\* has to supply it
ResolveCookie(arg, envc) ==
    IF arg # None THEN [login |-> FALSE, cookie |-> arg]
    ELSE IF envc # None THEN [login |-> FALSE, cookie |-> envc]
    ELSE [login |-> TRUE, cookie |-> None]

(* manual_login_cookie *)

SessionCookieName == <<"_", "z", "e", "n", "n", "_", "s", "e", "s", "s", "i",
                       "o", "n">>

\* cookies.iter().find(|c| c.name() == "_zenn_session")
FindSessionCookie(cookies) ==
    LET hits == {i \in 1..Len(cookies) : cookies[i].name = SessionCookieName}
    IN  IF hits = {} THEN None
        ELSE Some(cookies[CHOOSE i \in hits : \A j \in hits : i <= j])

\* the tail of manual_login_cookie, after client.close()
LoginResult(cookies) ==
    LET c == FindSessionCookie(cookies)
    IN  IF c # None
        THEN Ok(SessionCookieName \o <<"=">> \o c[1].value)
        ELSE Err("BadSlug")

\* A `?` that returns while `client` is alive drops the client without
\* client.close(): this code does not end the session; whether the library's
\* background shutdown still runs before the runtime ends is left open.
DroppedSession == {"open", "closed"}

(* fetch_scrap *)

\* format!("https://zenn.dev/api/scraps/{}/blob.json", slug)
ApiUrl(sl) ==
    ZennPrefix \o <<"a", "p", "i", "/", "s", "c", "r", "a", "p", "s", "/">>
    \o sl \o <<"/", "b", "l", "o", "b", ".", "j", "s", "o", "n">>

\* the ways fetch_scrap fails: the client builder, send(), a status that is
\* not a success, a body that does not deserialize; every one is AppError::Http
FetchFailures == {"Client::build", "send", "status", "json"}

-----------------------------------------------------------------------------
(* The inputs of a run of main *)

Comment(a, t, b, ch) ==
    [author |-> a, created_at |-> t, body_markdown |-> b, children |-> ch]

FullUrl == <<"h", "t", "t", "p", "s", ":", "/", "/", "z", "e", "n", "n", ".",
             "d", "e", "v", "/", "u", "/", "s", "c", "r", "a", "p", "s", "/",
             "x">>

\* a scrap URL, a bare slug, and two inputs that trim to nothing
MainUrls == {FullUrl, <<"x">>, <<>>, <<"/">>}
MainArgCookies == {None, Some(<<"a", "=", "1">>)}
MainEnvCookies == {None, Some(<<"e", "=", "2">>), Some(<<"a", "=", "1">>)}

OtherCookie == [name |-> <<"_", "g", "a">>, value |-> <<"g">>]
SessionCookie(v) == [name |-> SessionCookieName, value |-> v]
\* what the browser may hold when the operator presses ENTER
Jars == { <<>>,
          <<OtherCookie>>,
          <<SessionCookie(<<"s", "1">>)>>,
          <<OtherCookie, SessionCookie(<<"s", "1">>),
            SessionCookie(<<"s", "2">>)>> }

\* what the API may answer
MainScraps ==
    { [title |-> <<"T">>, comments |-> <<>>],
      [title |-> <<"T">>,
       comments |->
         << Comment(<<"a">>, <<"1">>,
                    <<"h", "i", " ", "!", "[", "]", "(", "u", " ", "=", "2",
                      "0", "x", ")">>,
                    << Comment(<<"b">>, <<"2">>, <<"y", "o">>, <<>>) >>),
            Comment(<<"b">>, <<"2">>, <<"!", "[", "]", "(", "u", ")">>, <<>>)
         >>] }

NoScrap == [title |-> <<>>, comments |-> <<>>]
NoFile == [written |-> FALSE, content |-> <<>>]

\* the state of main before its first statement, but for url .. skipHeader
Fresh ==
    /\ pc = "extract_slug"
    /\ slug = <<>>
    /\ cookie = None
    /\ session = "none"
    /\ jar = <<>>
    /\ scrap = NoScrap
    /\ md = <<>>
    /\ file = NoFile
    /\ request = None
    /\ result = "running"
    /\ errAt = ""
    /\ ran = <<>>
    /\ bodyParts = <<>>

Init ==
    /\ url \in MainUrls
    /\ argCookie \in MainArgCookies
    /\ envCookie \in MainEnvCookies
    /\ skipHeader \in BOOLEAN
    /\ Fresh

-----------------------------------------------------------------------------
(* main, one action for each call it makes *)

\* `?` on an Err: main returns the error
Fail(e, at) ==
    /\ pc' = "done"
    /\ result' = e
    /\ errAt' = at

\* let slug = extract_slug(&args.url)?;
MainExtractSlug ==
    /\ pc = "extract_slug"
    /\ ran' = Append(ran, "extract_slug")
    /\ LET r == extract_slug(url)
       IN  IF r.ok
           THEN /\ slug' = r.val
                /\ pc' = "resolve_cookie"
                /\ UNCHANGED <<result, errAt>>
           ELSE /\ Fail(r.err, "extract_slug")
                /\ UNCHANGED slug
    /\ UNCHANGED <<url, argCookie, envCookie, skipHeader, cookie, session, jar,
                   scrap, md, file, request, bodyParts>>

\* let cookie = if let Some(c) = args.cookie.clone() { c } else if ...
MainResolveCookie ==
    /\ pc = "resolve_cookie"
    /\ LET r == ResolveCookie(argCookie, envCookie)
       IN  IF r.login
           THEN /\ pc' = "login_new"
                /\ ran' = Append(ran, "manual_login_cookie")
                /\ UNCHANGED cookie
           ELSE /\ pc' = "fetch_scrap"
                /\ cookie' = r.cookie
                /\ UNCHANGED ran
    /\ UNCHANGED <<url, argCookie, envCookie, skipHeader, slug, session, jar,
                   scrap, md, file, request, result, errAt, bodyParts>>

\* let mut client = Client::new("http://localhost:9515").await?;
LoginNew ==
    /\ pc = "login_new"
    /\ \/ /\ session' = "open"
          /\ pc' = "login_goto"
          /\ UNCHANGED <<result, errAt>>
       \/ /\ Fail("NewSession", "Client::new")
          /\ UNCHANGED session
    /\ UNCHANGED <<url, argCookie, envCookie, skipHeader, slug, cookie, jar,
                   scrap, md, file, request, ran, bodyParts>>

\* client.goto("https://zenn.dev/sign_in").await?;
LoginGoto ==
    /\ pc = "login_goto"
    /\ \/ /\ pc' = "login_read_line"
          /\ UNCHANGED <<session, result, errAt>>
       \/ /\ Fail("WebDriver", "goto")
          /\ session' \in DroppedSession
    /\ UNCHANGED <<url, argCookie, envCookie, skipHeader, slug, cookie, jar,
                   scrap, md, file, request, ran, bodyParts>>

\* io::stdin().read_line(&mut buf)?;  sleep(Duration::from_secs(2)).await;
LoginReadLine ==
    /\ pc = "login_read_line"
    /\ \/ /\ pc' = "login_get_cookies"
          /\ UNCHANGED <<session, result, errAt>>
       \/ /\ Fail("Io", "read_line")
          /\ session' \in DroppedSession
    /\ UNCHANGED <<url, argCookie, envCookie, skipHeader, slug, cookie, jar,
                   scrap, md, file, request, ran, bodyParts>>

\* let cookies = client.get_all_cookies().await?;
LoginGetCookies ==
    /\ pc = "login_get_cookies"
    /\ \/ /\ jar' \in Jars
          /\ pc' = "login_close"
          /\ UNCHANGED <<session, result, errAt>>
       \/ /\ Fail("WebDriver", "get_all_cookies")
          /\ session' \in DroppedSession
          /\ UNCHANGED jar
    /\ UNCHANGED <<url, argCookie, envCookie, skipHeader, slug, cookie,
                   scrap, md, file, request, ran, bodyParts>>

\* client.close().await?;
LoginClose ==
    /\ pc = "login_close"
    /\ \/ /\ session' = "closed"
          /\ pc' = "login_find"
          /\ UNCHANGED <<result, errAt>>
       \/ /\ Fail("WebDriver", "close")
          /\ session' \in DroppedSession
    /\ UNCHANGED <<url, argCookie, envCookie, skipHeader, slug, cookie, jar,
                   scrap, md, file, request, ran, bodyParts>>

\* if let Some(c) = cookies.iter().find(..) { Ok(format!(..)) } else { Err(..) },
\* and the `?` of main on manual_login_cookie().await
LoginFind ==
    /\ pc = "login_find"
    /\ LET r == LoginResult(jar)
       IN  IF r.ok
           THEN /\ cookie' = Some(r.val)
                /\ pc' = "fetch_scrap"
                /\ UNCHANGED <<result, errAt>>
           ELSE /\ Fail(r.err, "find_session_cookie")
                /\ UNCHANGED cookie
    /\ UNCHANGED <<url, argCookie, envCookie, skipHeader, slug, session, jar,
                   scrap, md, file, request, ran, bodyParts>>

\* fetch_scrap whose error is reported but not returned: main goes on with an
\* empty scrap
MainFetchScrap_GoesOn ==
    /\ pc = "fetch_scrap"
    /\ ran' = Append(ran, "fetch_scrap")
    /\ request' = Some([url |-> ApiUrl(slug), cookie |-> cookie[1]])
    /\ pc' = "render"
    /\ \/ /\ \E how \in FetchFailures : result' = "Http" /\ errAt' = how
          /\ UNCHANGED scrap
       \/ /\ scrap' \in MainScraps
          /\ UNCHANGED <<result, errAt>>
    /\ UNCHANGED <<url, argCookie, envCookie, skipHeader, slug, cookie, session,
                   jar, md, file, bodyParts>>

\* let scrap = fetch_scrap(&slug, &cookie).await?;
MainFetchScrap ==
    /\ pc = "fetch_scrap"
    /\ ran' = Append(ran, "fetch_scrap")
    /\ \/ /\ Fail("Http", "Client::build")
          /\ UNCHANGED <<request, scrap>>
       \/ /\ request' = Some([url |-> ApiUrl(slug), cookie |-> cookie[1]])
          /\ \/ /\ \E how \in FetchFailures \ {"Client::build"} :
                      Fail("Http", how)
                /\ UNCHANGED scrap
             \/ /\ scrap' \in MainScraps
                /\ pc' = "render"
                /\ UNCHANGED <<result, errAt>>
    /\ UNCHANGED <<url, argCookie, envCookie, skipHeader, slug, cookie, session,
                   jar, md, file, bodyParts>>

\* let md = render_markdown(&scrap, &args.url, args.skip_header);
MainRender ==
    /\ pc = "render"
    /\ ran' = Append(ran, "render_markdown")
    /\ md' = render_markdown(scrap, url, skipHeader)
    /\ pc' = "write"
    /\ UNCHANGED <<url, argCookie, envCookie, skipHeader, slug, cookie, session,
                   jar, scrap, file, request, result, errAt, bodyParts>>

\* fs::write(&out, md)?;  Ok(())
\* A failed write leaves no file, or the file it created with nothing in it.
MainWrite ==
    /\ pc = "write"
    /\ ran' = Append(ran, "fs::write")
    /\ \/ /\ file' = [written |-> TRUE, content |-> md]
          /\ pc' = "done"
          /\ result' = "Ok"
          /\ UNCHANGED errAt
       \/ /\ Fail("Io", "fs::write")
          /\ file' \in {file, [written |-> TRUE, content |-> <<>>]}
    /\ UNCHANGED <<url, argCookie, envCookie, skipHeader, slug, cookie, session,
                   jar, scrap, md, request, bodyParts>>

Next ==
    \/ MainExtractSlug
    \/ MainResolveCookie
    \/ LoginNew
    \/ LoginGoto
    \/ LoginReadLine
    \/ LoginGetCookies
    \/ LoginClose
    \/ LoginFind
    \/ MainFetchScrap
    \/ MainRender
    \/ MainWrite

Spec == Init /\ [][Next]_vars

-----------------------------------------------------------------------------
(* extract_slug on generated inputs *)

SlugPieces == { <<"/">>, <<"/", "s", "c", "r", "a", "p", "s">>, <<"x">>,
                <<"u">> }

RECURSIVE SeqsUpTo(_, _)
\* the sequences of at most n elements of S
SeqsUpTo(S, n) ==
    IF n = 0 THEN {<<>>}
    ELSE LET shorter == SeqsUpTo(S, n - 1)
         IN  shorter \cup {Append(q, x) : q \in shorter, x \in S}

SlugInputs == {Concat(ps) : ps \in SeqsUpTo(SlugPieces, MaxPieces)}

InitSlug ==
    /\ url \in SlugInputs
    /\ argCookie = None
    /\ envCookie = None
    /\ skipHeader = FALSE
    /\ Fresh

NextSlug == MainExtractSlug

SpecSlug == InitSlug /\ [][NextSlug]_vars

-----------------------------------------------------------------------------
(* render_markdown on generated scraps *)

Labels == { [a |-> <<"a">>, t |-> <<"1">>, b |-> <<"p">>],
            [a |-> <<"b">>, t |-> <<"2">>, b |-> <<"q", " ", "r">>] }

RECURSIVE ForestsOf(_)
\* the comment forests of exactly n comments
ForestsOf(n) ==
    IF n = 0 THEN {<<>>}
    ELSE UNION { { <<Comment(l.a, l.t, l.b, ch)>> \o rest :
                     l \in Labels, ch \in ForestsOf(k - 1),
                     rest \in ForestsOf(n - k) } : k \in 1..n }

RenderScraps ==
    [title : {<<"T">>}, comments : UNION {ForestsOf(n) : n \in 0..MaxNodes}]

\* main after fetch_scrap has returned Ok(scrap), but for scrap and bodyParts
Fetched ==
    /\ pc = "render"
    /\ url \in {FullUrl, <<"x">>}
    /\ argCookie = Some(<<"a", "=", "1">>)
    /\ envCookie = None
    /\ skipHeader \in BOOLEAN
    /\ slug = extract_slug(url).val
    /\ cookie = argCookie
    /\ session = "none"
    /\ jar = <<>>
    /\ md = <<>>
    /\ file = NoFile
    /\ request = Some([url |-> ApiUrl(slug), cookie |-> cookie[1]])
    /\ result = "running"
    /\ errAt = ""
    /\ ran = <<"extract_slug", "fetch_scrap">>

InitRender ==
    /\ Fetched
    /\ scrap \in RenderScraps
    /\ bodyParts = <<>>

NextRender == MainRender

SpecRender == InitRender /\ [][NextRender]_vars

-----------------------------------------------------------------------------
(* render_markdown on generated comment bodies *)

TextPart(t) == [kind |-> "text", s |-> t, width |-> None]
ImgPart(u, w) == [kind |-> "img", s |-> u, width |-> w]

\* texts that hold no image directive, alone or put side by side
PlainTexts ==
    { <<"a">>, <<" ">>, <<")">>, <<"\n">>,
      <<"x", "(", "u", ")">>,
      <<"!", "[", "]">>,
      <<"!", "[", "]", "(", ")">>,
      <<"!", "[", "]", "(", "u", " ", "=", "x", ")">>,
      <<"!", "[", "]", "(", "u", " ", "v", ")">> }
ImgUrls == { <<"u">>, <<"h", ":", "/", "i", ".", "p">>,
             <<"!", "[", "]", "(", "v">> }
ImgWidths == { None, Some(<<"2", "0">>) }

Parts ==
    {TextPart(t) : t \in PlainTexts}
    \cup {ImgPart(u, w) : u \in ImgUrls, w \in ImgWidths}

\* the Zenn syntax of a part: ![](url) or ![](url =Nx)
PartSource(part) ==
    IF part.kind = "text" THEN part.s
    ELSE IF part.width = None
    THEN <<"!", "[", "]", "(">> \o part.s \o <<")">>
    ELSE <<"!", "[", "]", "(">> \o part.s \o <<" ", "=">> \o part.width[1]
         \o <<"x", ")">>

BodyOf(parts) == Concat([i \in 1..Len(parts) |-> PartSource(parts[i])])

InitImg ==
    /\ Fetched
    /\ bodyParts \in SeqsUpTo(Parts, MaxParts)
    /\ scrap = [title |-> <<"T">>,
                comments |-> << Comment(<<"a">>, <<"1">>, BodyOf(bodyParts),
                                        <<>>) >>]

NextImg == MainRender

SpecImg == InitImg /\ [][NextImg]_vars

-----------------------------------------------------------------------------
(* What the properties are stated with *)

Range(q) == {q[i] : i \in 1..Len(q)}

\* the k-th smallest element of a set of numbers, from 1
Nth(S, k) == CHOOSE x \in S : Cardinality({y \in S : y < x}) = k - 1

\* the lines of s: "\n" ends a line
SplitLines(s) ==
    LET ends == {i \in 1..Len(s) : s[i] = "\n"}
                \cup (IF s # <<>> /\ s[Len(s)] # "\n" THEN {Len(s) + 1} ELSE {})
        starts == {1} \cup {i + 1 : i \in ends}
    IN  [k \in 1..Cardinality(ends) |->
            SubSeq(s, Nth(starts, k), Nth(ends, k) - 1)]

\* the lines of the document that are not blank
TextLines(doc) == SelectSeq(SplitLines(doc), LAMBDA l : l # <<>>)

IsRuleLine(l) == l = <<"-", "-", "-">>
IsHeaderLine(l) ==
    /\ Len(l) >= 5
    /\ SubSeq(l, 1, 2) = <<"*", "*">>
    /\ SubSeq(l, Len(l) - 2, Len(l)) = <<")", "*", "*">>

\* the lines render_comments wrote: all but the title and the backlink
CommentLines(doc) == LET t == TextLines(doc) IN SubSeq(t, 3, Len(t))

RECURSIVE PathsOf(_)
\* the comments of a forest, each named by its path: the index among the
\* top-level comments, then among the children, and so on
PathsOf(forest) ==
    UNION { {<<i>>} \cup {<<i>> \o q : q \in PathsOf(forest[i].children)} :
            i \in 1..Len(forest) }

RECURSIVE NodeAt(_, _)
NodeAt(forest, path) ==
    IF Len(path) = 1 THEN forest[path[1]]
    ELSE NodeAt(forest[path[1]].children, Tail(path))

\* p comes before q in depth-first pre-order: p is an ancestor of q, or at the
\* first index where they differ p is the earlier sibling
ComesBefore(p, q) ==
    \/ Len(p) < Len(q) /\ SubSeq(q, 1, Len(p)) = p
    \/ \E k \in 1..Len(p) :
          /\ k <= Len(q)
          /\ SubSeq(p, 1, k - 1) = SubSeq(q, 1, k - 1)
          /\ p[k] < q[k]

\* the place of the comment at path p in depth-first pre-order, from 1
PreorderRank(forest, p) ==
    Cardinality({q \in PathsOf(forest) : ComesBefore(q, p)}) + 1

\* the link text of the backlink: the URL without "https://zenn.dev/" in
\* front (the inputs of the model hold the prefix in front or not at all)
slugOrPath(u) ==
    IF Len(u) >= Len(ZennPrefix) /\ SubSeq(u, 1, Len(ZennPrefix)) = ZennPrefix
    THEN SubSeq(u, Len(ZennPrefix) + 1, Len(u))
    ELSE u

\* the stage of the pipeline a `?` of main belongs to
StageOf(at) ==
    CASE at = "extract_slug" -> "extract_slug"
      [] at \in {"Client::new", "goto", "read_line", "get_all_cookies",
                 "close", "find_session_cookie"} -> "manual_login_cookie"
      [] at \in FetchFailures -> "fetch_scrap"
      [] at = "fs::write" -> "fs::write"
      [] OTHER -> ""

-----------------------------------------------------------------------------
(* C1 *)

\* C1: the cookie is resolved by an ordered, short-circuiting chain: once the
\* cookie is handed to fetch_scrap it is --cookie whenever --cookie is given
\* (whatever ZENN_AUTH_COOKIE holds), it is ZENN_AUTH_COOKIE when --cookie is
\* absent and the variable is set, and manual_login_cookie has been started
\* only when both are absent.
C1_CookiePrecedence ==
    /\ (pc = "fetch_scrap" \/ "fetch_scrap" \in Range(ran)) =>
          /\ argCookie # None => cookie = argCookie
          /\ (argCookie = None /\ envCookie # None) => cookie = envCookie
    /\ request # None =>
          /\ argCookie # None => request[1].cookie = argCookie[1]
          /\ (argCookie = None /\ envCookie # None) =>
                request[1].cookie = envCookie[1]
    /\ ("manual_login_cookie" \in Range(ran) \/ session # "none"
        \/ pc \in {"login_new", "login_goto", "login_read_line",
                   "login_get_cookies", "login_close", "login_find"}) =>
          (argCookie = None /\ envCookie = None)

\* a request was sent with --cookie given and ZENN_AUTH_COOKIE set to
\* something else
C1_Witness ==
    /\ request # None
    /\ argCookie # None
    /\ envCookie # None
    /\ envCookie # argCookie

(* C2 *)

\* C2: once manual_login_cookie has created the session, the session is
\* closed on every exit path: no run ends with a session that was created
\* and never closed.
C2_SessionClosedOnEveryExit ==
    (pc = "done" /\ session # "none") => session = "closed"

(* C3 *)

\* C3: no Markdown is written on failure: when extract_slug, the cookie
\* resolution or fetch_scrap fails, main returns the error at that stage, no
\* later stage has run and the file is untouched; fs::write is called only
\* after extract_slug, the cookie resolution, fetch_scrap and
\* render_markdown, with the complete rendered string, which is what the file
\* holds when main returns Ok.
C3_NoOutputOnFailure ==
    /\ (result \notin {"running", "Ok"} /\ errAt # "fs::write") =>
          /\ pc = "done"
          /\ file = NoFile
          /\ md = <<>>
          /\ ran[Len(ran)] = StageOf(errAt)
          /\ Range(ran) \cap {"render_markdown", "fs::write"} = {}
          /\ StageOf(errAt) \in {"extract_slug", "manual_login_cookie"} =>
                (request = None /\ "fetch_scrap" \notin Range(ran))
          /\ StageOf(errAt) = "extract_slug" =>
                (cookie = None /\ session = "none" /\ ran = <<"extract_slug">>)
    /\ (file # NoFile \/ "fs::write" \in Range(ran)) =>
          /\ extract_slug(url) = Ok(slug)
          /\ cookie # None
          /\ request # None
          /\ scrap \in MainScraps
          /\ md = render_markdown(scrap, url, skipHeader)
          /\ SelectSeq(ran, LAMBDA c : c # "manual_login_cookie")
                = <<"extract_slug", "fetch_scrap", "render_markdown",
                    "fs::write">>
    /\ result = "Ok" =>
          file = [written |-> TRUE,
                  content |-> render_markdown(scrap, url, skipHeader)]

\* a run whose fetch failed after a manual login, and ended with no file
C3_Witness ==
    /\ pc = "done"
    /\ result = "Http"
    /\ errAt = "status"
    /\ "manual_login_cookie" \in Range(ran)
    /\ file = NoFile

(* C9 *)

\* C9: when the login completes and no cookie named _zenn_session is
\* present, manual_login_cookie fails with an error of its own, which is
\* neither the invalid-identifier error (BadSlug) nor the error of a session
\* that could not be created (NewSession); when the cookie is present it
\* returns "_zenn_session=<value>".
C9_MissingCookieHasItsOwnError ==
    /\ errAt = "find_session_cookie" =>
          (result \notin {"BadSlug", "NewSession", "running", "Ok"})
    /\ (pc = "fetch_scrap" /\ "manual_login_cookie" \in Range(ran)) =>
          \E i \in 1..Len(jar) :
              /\ jar[i].name = SessionCookieName
              /\ cookie = Some(SessionCookieName \o <<"=">> \o jar[i].value)

-----------------------------------------------------------------------------
(* C7, C8 *)

\* the identifier the input names: the text after the first "/scraps/" when
\* the input holds one, the input itself otherwise, trailing "/" stripped
NamedIdentifier(input) ==
    LET pos == Find(input, ScrapsMarker)
    IN  IF pos # None
        THEN TrimEndMatches(SliceFrom(input, pos[1] + Len(ScrapsMarker)), "/")
        ELSE TrimEndMatches(input, "/")

\* C7: for an input that contains /scraps/<X>, with or without trailing "/",
\* the identifier extract_slug returns is <X> with the trailing "/" stripped;
\* for an input without the marker it is the input with the trailing "/"
\* stripped.
C7_SlugIsTextAfterMarker ==
    pc = "resolve_cookie" => slug = NamedIdentifier(url)

\* C8: extract_slug fails with BadSlug whenever the identifier left after
\* trimming is empty, also when /scraps/ ends the input, and never returns
\* Ok with an empty identifier.
C8_EmptyIdentifierIsBadSlug ==
    /\ (pc # "extract_slug" /\ NamedIdentifier(url) = <<>>) =>
          (pc = "done" /\ result = "BadSlug" /\ errAt = "extract_slug")
    /\ pc = "resolve_cookie" => slug # <<>>

-----------------------------------------------------------------------------
(* C4, C5, C6 *)

RuleCount(doc) ==
    Len(SelectSeq(TextLines(doc), IsRuleLine))

\* C4: with skip_header = false the "---" line is written only between
\* top-level comments, so a scrap with at least one top-level comment has one
\* "---" line less than it has top-level comments.
C4_RulesOnlyBetweenTopLevel ==
    (pc = "write" /\ ~skipHeader /\ scrap.comments # <<>>) =>
        RuleCount(md) = Len(scrap.comments) - 1

\* the lines of the comments without the "---" lines
UnruledLines(doc) ==
    SelectSeq(CommentLines(doc), LAMBDA l : ~IsRuleLine(l))

\* C5: the header is suppressed alike at every depth: with skip_header = true
\* no header line and no "---" line is written for any comment; with
\* skip_header = false every comment, top-level or nested, has exactly one
\* header line "**author (created_at)**", written right before its body.
C5_HeadersAtEveryDepth ==
    pc = "write" =>
      LET forest == scrap.comments
          paths == PathsOf(forest)
          lines == UnruledLines(md)
      IN  IF skipHeader
          THEN \A i \in 1..Len(CommentLines(md)) :
                  /\ ~IsHeaderLine(CommentLines(md)[i])
                  /\ ~IsRuleLine(CommentLines(md)[i])
          ELSE /\ Len(lines) = 2 * Cardinality(paths)
               /\ Len(SelectSeq(lines, IsHeaderLine)) = Cardinality(paths)
               /\ \A p \in paths :
                    LET k == PreorderRank(forest, p)
                        c == NodeAt(forest, p)
                    IN  /\ lines[2 * k - 1] =
                              <<"*", "*">> \o c.author \o <<" ", "(">>
                              \o c.created_at \o <<")", "*", "*">>
                        /\ lines[2 * k] = c.body_markdown

\* a comment with two children was rendered with its headers
C5_Witness ==
    /\ pc = "write"
    /\ ~skipHeader
    /\ \E i \in 1..Len(scrap.comments) : Len(scrap.comments[i].children) >= 2

\* the lines of the comment bodies: neither header nor "---"
BodyLines(doc) ==
    SelectSeq(CommentLines(doc), LAMBDA l : ~IsRuleLine(l) /\ ~IsHeaderLine(l))

\* C6: render_markdown writes the title heading, then the backlink line, then
\* the comments in depth-first pre-order: a comment before its children, all
\* its descendants before its next sibling, every comment exactly once.
C6_DepthFirstPreorder ==
    pc = "write" =>
      LET forest == scrap.comments
          paths == PathsOf(forest)
          all == SplitLines(md)
          bodies == BodyLines(md)
      IN  /\ all[1] = <<"#", " ">> \o scrap.title
          /\ all[2] = <<>>
          /\ all[3] = <<"O", "r", "i", "g", "i", "n", "a", "l", ":", " ", "[">>
                      \o slugOrPath(url) \o <<"]", "(">> \o url \o <<")">>
          /\ all[4] = <<>>
          /\ Len(bodies) = Cardinality(paths)
          /\ \A p \in paths :
                bodies[PreorderRank(forest, p)] = NodeAt(forest, p).body_markdown

\* a forest three comments deep with a later top-level comment was rendered
C6_Witness ==
    /\ pc = "write"
    /\ Len(scrap.comments) >= 2
    /\ \E p \in PathsOf(scrap.comments) : Len(p) = 3 /\ p[1] = 1

-----------------------------------------------------------------------------
(* C10 *)

\* what a part is to become: <img src="url"> or <img src="url" width="N">,
\* a text unchanged
PartTarget(part) ==
    IF part.kind = "text" THEN part.s
    ELSE IF part.width = None
    THEN <<"<", "i", "m", "g", " ", "s", "r", "c", "=", "\"">> \o part.s
         \o <<"\"", ">">>
    ELSE <<"<", "i", "m", "g", " ", "s", "r", "c", "=", "\"">> \o part.s
         \o <<"\"", " ", "w", "i", "d", "t", "h", "=", "\"">> \o part.width[1]
         \o <<"\"", ">">>

\* C10: the image rewrite is one global substitution over a comment body:
\* every ![](URL =Nx) becomes <img src="URL" width="N">, every ![](URL)
\* becomes <img src="URL"> with no width, and the text outside the
\* directives is written unchanged and in the same order.
C10_ImageRewrite ==
    (pc = "write" /\ bodyParts # <<>>) =>
      LET c == scrap.comments[1]
          head == TitleLine(scrap) \o BacklinkLine(url)
                  \o (IF skipHeader THEN <<>> ELSE HeaderLine(c))
          body == Concat([i \in 1..Len(bodyParts) |-> PartTarget(bodyParts[i])])
      IN  md = head \o body \o <<"\n", "\n">>

\* a body with two directives, one with a width and one without, and text
\* between them, was rendered
C10_Witness ==
    /\ pc = "write"
    /\ Len(bodyParts) = 3
    /\ bodyParts[1].kind = "img" /\ bodyParts[1].width # None
    /\ bodyParts[2].kind = "text"
    /\ bodyParts[3].kind = "img" /\ bodyParts[3].width = None

====
